---- MODULE Spec2Model ----
(***************************************************************************)
(* Model of src/app.py: a Flask service with four scenario handlers        *)
(* (/, /error, /timeout, /db-failure) and one daemon thread that all emit  *)
(* OpenTelemetry spans, one counter and log records.                       *)
(*                                                                         *)
(* Every request runs on its own thread, the generator on a daemon thread; *)
(* each source statement that touches telemetry state is one action, so    *)
(* all interleavings of the threads are explored.                          *)
(*                                                                         *)
(* Durations are kept in microseconds, so that int(sleep_time * 1000) is a *)
(* real truncation.                                                        *)
(***************************************************************************)
EXTENDS Integers, Sequences, FiniteSets, TLC

\* ----- bounds of the model -----
\* request invocations served during one run
MaxReq == 2
\* iterations of the background loop explored
MaxTicks == 2

\* ----- program constants -----
UsPerMs == 1000
LatencyLoUs == 100000
LatencyHiUs == 300000
TimeoutUs == 5500000
BackgroundSleepUs == 2000000

BG == 0
Req == 1..MaxReq
Units == Req \cup {BG}

Routes == {"/", "/error", "/timeout", "/db-failure"}
Labels == Routes \cup {"/background"}

NoSpan == 0
NoRoute == "none"
NoCtx == [trace_id |-> <<"invalid">>, span_id |-> <<"invalid">>]
NoExc == [type |-> "", message |-> ""]
NoResp == [body |-> "", status |-> 0]
NoParent == <<"none">>

VARIABLES
    pc,          \* position of every thread in its handler / loop
    route,       \* the path Flask dispatched each request to
    sleep_time,  \* hello's / simulate_timeout's local sleep_time (us)
    span,        \* the `span` local bound by `with ... as span`
    token,       \* the context each `with` restores on exit
    ctx,         \* hello's local ctx
    exc,         \* the caught exception `e`
    current,     \* the current span of every thread's context
    spans,       \* every span started, by the nonce of its start
    counter,     \* http_requests_total, accumulated per endpoint label
    logs,        \* log records handed to the logging handler
    resp,        \* the response each request returned
    trail,       \* per span, the steps its unit of work has taken so far
    slept,       \* the duration each thread last passed to time.sleep (us)
    collectorUp  \* whether otel-collector:4317 accepts what is exported

vars == <<pc, route, sleep_time, span, token, ctx, exc, current, spans,
          counter, logs, resp, trail, slept, collectorUp>>

\* ----- identifiers -----
\* The SDK draws ids at random (128 and 64 bits); a call is modelled by the
\* nonce n of the start_span call that asks for them: request r is nonce r,
\* iteration k of the background loop is nonce MaxReq + k.
GenerateTraceId(n) == <<"trace", n>>
GenerateSpanId(n) == <<"span", n>>

\* ----- pure helpers -----
\* random.uniform(0.1, 0.3): the smallest and the largest value the call can
\* return (the largest is 0.1 + 0.2 * (1 - 2^-53) = 0.29999999999999993).
UniformSamples(lo, hi) == {lo, hi - 1}

\* int(sleep_time * 1000): truncation of seconds to whole milliseconds.
ToMsRounded(us) == (us + UsPerMs \div 2) \div UsPerMs
ToMs(us) == us \div UsPerMs

NoAttributes == [k \in {} |-> ""]
SetAttribute(a, k, v) ==
    [x \in DOMAIN a \cup {k} |-> IF x = k THEN v ELSE a[x]]

\* request_counter.add(1, {"endpoint": l}): one atomic accumulation.
CounterAddLossy(c, l) == [c EXCEPT ![l] = IF @ >= 1 THEN @ ELSE @ + 1]
CounterAddAndTotal(c, l) ==
    [x \in DOMAIN c |-> IF x = l \/ x = "/" THEN c[x] + 1 ELSE c[x]]
CounterAdd(c, l) == [c EXCEPT ![l] = @ + 1]

\* get_current_span(): the span attached to the calling thread's context.
GetCurrentSpanShared(u) ==
    LET open == {i \in DOMAIN spans : ~spans[i].ended}
    IN  IF open = {} THEN NoSpan ELSE CHOOSE i \in open : \A j \in open : j <= i
GetCurrentSpan(u) == current[u]

SpanContext(i) ==
    IF i = NoSpan THEN NoCtx
    ELSE [trace_id |-> spans[i].trace_id, span_id |-> spans[i].span_id]

ZeroDivisionError == [type |-> "ZeroDivisionError", message |-> "division by zero"]
ConnectionError ==
    [type |-> "ConnectionError", message |-> "Unable to connect to MySQL database"]

\* str(e)
Str(e) == e.message

HelloResponse ==
    [body |-> "Hello from Flask with OTEL Traces, Metrics & Logs!", status |-> 200]
ErrorResponseIfExported ==
    IF collectorUp
    THEN [body |-> "Simulated error occurred!", status |-> 500]
    ELSE [body |-> "Internal Server Error", status |-> 500]
ErrorResponse == [body |-> "Simulated error occurred!", status |-> 500]
TimeoutResponseGateway == [body |-> "Simulated long request complete", status |-> 504]
TimeoutResponse == [body |-> "Simulated long request complete", status |-> 200]
DbFailureResponse == [body |-> "Database connection error simulated", status |-> 500]

\* ----- span operations -----
\* tracer.start_as_current_span(name, kind): a new span whose parent is the
\* caller's current span; it becomes the caller's current span.
Nonce(u) ==
    IF u = BG
    THEN MaxReq + 1 + Cardinality({i \in DOMAIN spans : spans[i].owner = BG})
    ELSE u

NewSpan(u, name, kind) ==
    LET p == GetCurrentSpan(u)
        n == Nonce(u)
    IN  [name |-> name, kind |-> kind, owner |-> u,
         trace_id |-> IF p = NoSpan THEN GenerateTraceId(n) ELSE spans[p].trace_id,
         span_id |-> GenerateSpanId(n),
         parent |-> IF p = NoSpan THEN NoParent ELSE spans[p].span_id,
         attributes |-> NoAttributes,
         status |-> "UNSET", description |-> "",
         events |-> <<>>, ended |-> FALSE, exported |-> FALSE,
         writers |-> {}]

StartAsCurrentSpan(u, name, kind) ==
    /\ spans' = spans @@ (Nonce(u) :> NewSpan(u, name, kind))
    /\ span' = [span EXCEPT ![u] = Nonce(u)]
    /\ token' = [token EXCEPT ![u] = current[u]]
    /\ current' = [current EXCEPT ![u] = Nonce(u)]
    /\ trail' = trail @@ (Nonce(u) :> <<"open">>)

\* the unit of work of thread u takes the steps `steps`, in this order
Mark(u, steps) == trail' = [trail EXCEPT ![span[u]] = @ \o steps]

\* time.sleep(t) by thread u: only thread u waits, for the whole duration
Sleep(u, t) == slept' = [slept EXCEPT ![u] = t]

\* span.set_attribute(k, v) by thread u
WithAttribute(s, u, k, v) ==
    [s EXCEPT !.attributes = SetAttribute(@, k, v), !.writers = @ \cup {u}]

\* span.record_exception(e) by thread u
WithException(s, u, e) ==
    [s EXCEPT !.events = Append(@, e), !.writers = @ \cup {u}]

\* span.set_status(StatusCode.ERROR, description) by thread u
WithStatusCodeOnly(s, u, code, description) ==
    [s EXCEPT !.status = code, !.writers = @ \cup {u}]
WithStatus(s, u, code, description) ==
    [s EXCEPT !.status = code, !.description = description, !.writers = @ \cup {u}]

\* context.detach(token): the context the `with` entered from
DetachLeaked(u) == current[u]
Detach(u) == token[u]

\* the context is restored but span.end() is never called
EndSpanDetachOnly(u) ==
    /\ spans' = spans
    /\ current' = [current EXCEPT ![u] = Detach(u)]

\* leaving the `with` block normally: the span ends, is handed to the batch
\* processor for export, and the previous context is restored
EndSpan(u) ==
    /\ spans' = [spans EXCEPT ![span[u]] =
                    [@ EXCEPT !.ended = TRUE, !.exported = collectorUp,
                              !.writers = @ \cup {u}]]
    /\ current' = [current EXCEPT ![u] = Detach(u)]

\* logger.<level>(message, extra={"custom_attributes": fields}) by thread u
LogRecord(u, level, message, fields) ==
    [by |-> u, during |-> span[u], level |-> level, message |-> message,
     fields |-> fields, exported |-> collectorUp]

Init ==
    /\ pc = [u \in Units |-> IF u = BG THEN "open" ELSE "idle"]
    /\ route = [r \in Req |-> NoRoute]
    /\ sleep_time = [r \in Req |-> 0]
    /\ span = [u \in Units |-> NoSpan]
    /\ token = [u \in Units |-> NoSpan]
    /\ ctx = [r \in Req |-> NoCtx]
    /\ exc = [r \in Req |-> NoExc]
    /\ current = [u \in Units |-> NoSpan]
    /\ spans = <<>>
    /\ counter = [l \in Labels |-> 0]
    /\ logs = {}
    /\ resp = [r \in Req |-> NoResp]
    /\ trail = <<>>
    /\ slept = [u \in Units |-> 0]
    /\ collectorUp = TRUE

At(r, rt, label) == route[r] = rt /\ pc[r] = label
Goto(u, label) == pc' = [pc EXCEPT ![u] = label]

\* a server that serves one request at a time: a request waits until no other
\* request is in its view function
DispatchSerial(r) ==
    /\ pc[r] = "idle"
    /\ \A q \in Req : q < r => pc[q] # "idle"
    /\ \A q \in Req : pc[q] \in {"idle", "done"}
    /\ \E rt \in Routes : route' = [route EXCEPT ![r] = rt]
    /\ Goto(r, "open")
    /\ UNCHANGED <<sleep_time, span, token, ctx, exc, current, spans, counter,
                   logs, resp, trail, slept, collectorUp>>

\* Flask hands an incoming request to the view function of its path, on a
\* thread of its own.
Dispatch(r) ==
    /\ pc[r] = "idle"
    /\ \A q \in Req : q < r => pc[q] # "idle"
    /\ \E rt \in Routes : route' = [route EXCEPT ![r] = rt]
    /\ Goto(r, "open")
    /\ UNCHANGED <<sleep_time, span, token, ctx, exc, current, spans, counter,
                   logs, resp, trail, slept, collectorUp>>

\* ----- hello: GET / -----
HelloOpen(r) ==
    /\ At(r, "/", "open")
    /\ StartAsCurrentSpan(r, "hello-span", "SERVER")
    /\ Goto(r, "attrs")
    /\ UNCHANGED <<route, sleep_time, ctx, exc, counter, logs, resp, slept,
                   collectorUp>>

HelloAttrs(r) ==
    /\ At(r, "/", "attrs")
    /\ spans' = [spans EXCEPT ![span[r]] =
          WithAttribute(WithAttribute(@, r, "endpoint", "/"),
                        r, "custom.status", "success")]
    /\ Goto(r, "draw")
    /\ Mark(r, <<"attr", "attr">>)
    /\ UNCHANGED <<route, sleep_time, span, token, ctx, exc, current, counter,
                   logs, resp, slept, collectorUp>>

HelloDraw(r) ==
    /\ At(r, "/", "draw")
    /\ \E t \in UniformSamples(LatencyLoUs, LatencyHiUs) :
          sleep_time' = [sleep_time EXCEPT ![r] = t]
    /\ Goto(r, "sleep")
    /\ UNCHANGED <<route, span, token, ctx, exc, current, spans, counter,
                   logs, resp, trail, slept, collectorUp>>

HelloSleep(r) ==
    /\ At(r, "/", "sleep")
    /\ Goto(r, "latency")
    /\ Mark(r, <<"sleep">>)
    /\ Sleep(r, sleep_time[r])
    /\ UNCHANGED <<route, sleep_time, span, token, ctx, exc, current, spans,
                   counter, logs, resp, collectorUp>>

\* lines 76 and 77 swapped: the increment first, then the attribute
HelloLatencyAfterCount(r) ==
    /\ At(r, "/", "latency")
    /\ counter' = CounterAdd(counter, "/")
    /\ spans' = [spans EXCEPT ![span[r]] =
          WithAttribute(@, r, "simulated_latency_ms", ToMs(sleep_time[r]))]
    /\ Goto(r, "ctx")
    /\ Mark(r, <<"count", "attr">>)
    /\ UNCHANGED <<route, sleep_time, span, token, ctx, exc, current, logs,
                   resp, slept, collectorUp>>

HelloLatency(r) ==
    /\ At(r, "/", "latency")
    /\ spans' = [spans EXCEPT ![span[r]] =
          WithAttribute(@, r, "simulated_latency_ms", ToMs(sleep_time[r]))]
    /\ Goto(r, "count")
    /\ Mark(r, <<"attr">>)
    /\ UNCHANGED <<route, sleep_time, span, token, ctx, exc, current, counter,
                   logs, resp, slept, collectorUp>>

HelloCount(r) ==
    /\ At(r, "/", "count")
    /\ counter' = CounterAdd(counter, "/")
    /\ Goto(r, "ctx")
    /\ Mark(r, <<"count">>)
    /\ UNCHANGED <<route, sleep_time, span, token, ctx, exc, current, spans,
                   logs, resp, slept, collectorUp>>

HelloCtx(r) ==
    /\ At(r, "/", "ctx")
    /\ ctx' = [ctx EXCEPT ![r] = SpanContext(GetCurrentSpan(r))]
    /\ Goto(r, "log")
    /\ UNCHANGED <<route, sleep_time, span, token, exc, current, spans,
                   counter, logs, resp, trail, slept, collectorUp>>

\* latency_ms computed with round() instead of int()
HelloLogFieldsRounded(r) ==
    [k \in {"trace_id", "span_id", "endpoint", "latency_ms"} |->
        CASE k = "trace_id" -> ctx[r].trace_id
          [] k = "span_id" -> ctx[r].span_id
          [] k = "endpoint" -> "/"
          [] k = "latency_ms" -> ToMsRounded(sleep_time[r])]

HelloLogFields(r) ==
    [k \in {"trace_id", "span_id", "endpoint", "latency_ms"} |->
        CASE k = "trace_id" -> ctx[r].trace_id
          [] k = "span_id" -> ctx[r].span_id
          [] k = "endpoint" -> "/"
          [] k = "latency_ms" -> ToMs(sleep_time[r])]

HelloLog(r) ==
    /\ At(r, "/", "log")
    /\ logs' = logs \cup {LogRecord(r, "INFO", "Request handled", HelloLogFields(r))}
    /\ Goto(r, "return")
    /\ Mark(r, <<"log">>)
    /\ UNCHANGED <<route, sleep_time, span, token, ctx, exc, current, spans,
                   counter, resp, slept, collectorUp>>

HelloReturn(r) ==
    /\ At(r, "/", "return")
    /\ EndSpan(r)
    /\ resp' = [resp EXCEPT ![r] = HelloResponse]
    /\ Goto(r, "done")
    /\ Mark(r, <<"close">>)
    /\ UNCHANGED <<route, sleep_time, span, token, ctx, exc, counter, logs,
                   slept, collectorUp>>

\* ----- trigger_error: GET /error -----
ErrorOpen(r) ==
    /\ At(r, "/error", "open")
    /\ StartAsCurrentSpan(r, "simulate-error", "SERVER")
    /\ Goto(r, "attrs")
    /\ UNCHANGED <<route, sleep_time, ctx, exc, counter, logs, resp, slept,
                   collectorUp>>

ErrorAttrs(r) ==
    /\ At(r, "/error", "attrs")
    /\ spans' = [spans EXCEPT ![span[r]] =
          WithAttribute(WithAttribute(WithAttribute(@, r, "endpoint", "/error"),
                                      r, "job", "failure_simulation"),
                        r, "env", "test")]
    /\ Goto(r, "try")
    /\ Mark(r, <<"attr", "attr", "attr">>)
    /\ UNCHANGED <<route, sleep_time, span, token, ctx, exc, current, counter,
                   logs, resp, slept, collectorUp>>

\* 1 / 0 raises ZeroDivisionError, which the except clause binds to e
ErrorDivide(r) ==
    /\ At(r, "/error", "try")
    /\ exc' = [exc EXCEPT ![r] = ZeroDivisionError]
    /\ Goto(r, "record")
    /\ Mark(r, <<"fault">>)
    /\ UNCHANGED <<route, sleep_time, span, token, ctx, current, spans,
                   counter, logs, resp, slept, collectorUp>>

ErrorRecord(r) ==
    /\ At(r, "/error", "record")
    /\ spans' = [spans EXCEPT ![span[r]] = WithException(@, r, exc[r])]
    /\ Goto(r, "status")
    /\ Mark(r, <<"exception">>)
    /\ UNCHANGED <<route, sleep_time, span, token, ctx, exc, current, counter,
                   logs, resp, slept, collectorUp>>

ErrorStatus(r) ==
    /\ At(r, "/error", "status")
    /\ spans' = [spans EXCEPT ![span[r]] = WithStatus(@, r, "ERROR", Str(exc[r]))]
    /\ Goto(r, "log")
    /\ Mark(r, <<"status">>)
    /\ UNCHANGED <<route, sleep_time, span, token, ctx, exc, current, counter,
                   logs, resp, slept, collectorUp>>

ErrorLogFields(r) ==
    [k \in {"trace_id", "error.type", "error.message"} |->
        CASE k = "trace_id" -> SpanContext(span[r]).trace_id
          [] k = "error.type" -> "ZeroDivisionError"
          [] k = "error.message" -> Str(exc[r])]

ErrorLog(r) ==
    /\ At(r, "/error", "log")
    /\ logs' = logs \cup
          {LogRecord(r, "ERROR", "Error route exception", ErrorLogFields(r))}
    /\ Goto(r, "return")
    /\ Mark(r, <<"log">>)
    /\ UNCHANGED <<route, sleep_time, span, token, ctx, exc, current, spans,
                   counter, resp, slept, collectorUp>>

ErrorReturn(r) ==
    /\ At(r, "/error", "return")
    /\ EndSpan(r)
    /\ resp' = [resp EXCEPT ![r] = ErrorResponse]
    /\ Goto(r, "done")
    /\ Mark(r, <<"close">>)
    /\ UNCHANGED <<route, sleep_time, span, token, ctx, exc, counter, logs,
                   slept, collectorUp>>

\* ----- simulate_timeout: GET /timeout -----
TimeoutOpen(r) ==
    /\ At(r, "/timeout", "open")
    /\ StartAsCurrentSpan(r, "simulate-timeout", "SERVER")
    /\ Goto(r, "attrs")
    /\ UNCHANGED <<route, sleep_time, ctx, exc, counter, logs, resp, slept,
                   collectorUp>>

TimeoutAttrs(r) ==
    /\ At(r, "/timeout", "attrs")
    /\ spans' = [spans EXCEPT ![span[r]] =
          WithAttribute(WithAttribute(@, r, "endpoint", "/timeout"),
                        r, "custom.status", "delayed")]
    /\ Goto(r, "draw")
    /\ Mark(r, <<"attr", "attr">>)
    /\ UNCHANGED <<route, sleep_time, span, token, ctx, exc, current, counter,
                   logs, resp, slept, collectorUp>>

TimeoutSet(r) ==
    /\ At(r, "/timeout", "draw")
    /\ sleep_time' = [sleep_time EXCEPT ![r] = TimeoutUs]
    /\ Goto(r, "sleep")
    /\ UNCHANGED <<route, span, token, ctx, exc, current, spans, counter,
                   logs, resp, trail, slept, collectorUp>>

\* the sleep is interrupted and the invocation abandoned where it stands
TimeoutSleepCancelled(r) ==
    /\ At(r, "/timeout", "sleep")
    /\ Goto(r, "done")
    /\ UNCHANGED <<route, sleep_time, span, token, ctx, exc, current, spans,
                   counter, logs, resp, trail, slept, collectorUp>>

TimeoutSleep(r) ==
    /\ At(r, "/timeout", "sleep")
    /\ Goto(r, "latency")
    /\ Mark(r, <<"sleep">>)
    /\ Sleep(r, sleep_time[r])
    /\ UNCHANGED <<route, sleep_time, span, token, ctx, exc, current, spans,
                   counter, logs, resp, collectorUp>>

TimeoutLatency(r) ==
    /\ At(r, "/timeout", "latency")
    /\ spans' = [spans EXCEPT ![span[r]] =
          WithAttribute(@, r, "timeout_latency_ms", ToMs(sleep_time[r]))]
    /\ Goto(r, "count")
    /\ Mark(r, <<"attr">>)
    /\ UNCHANGED <<route, sleep_time, span, token, ctx, exc, current, counter,
                   logs, resp, slept, collectorUp>>

TimeoutCount(r) ==
    /\ At(r, "/timeout", "count")
    /\ counter' = CounterAdd(counter, "/timeout")
    /\ Goto(r, "log")
    /\ Mark(r, <<"count">>)
    /\ UNCHANGED <<route, sleep_time, span, token, ctx, exc, current, spans,
                   logs, resp, slept, collectorUp>>

TimeoutLogFields(r) ==
    [k \in {"trace_id", "latency", "status"} |->
        CASE k = "trace_id" -> SpanContext(span[r]).trace_id
          [] k = "latency" -> sleep_time[r]
          [] k = "status" -> "delayed"]

TimeoutLog(r) ==
    /\ At(r, "/timeout", "log")
    /\ logs' = logs \cup
          {LogRecord(r, "WARNING", "Simulated timeout", TimeoutLogFields(r))}
    /\ Goto(r, "return")
    /\ Mark(r, <<"log">>)
    /\ UNCHANGED <<route, sleep_time, span, token, ctx, exc, current, spans,
                   counter, resp, slept, collectorUp>>

TimeoutReturn(r) ==
    /\ At(r, "/timeout", "return")
    /\ EndSpan(r)
    /\ resp' = [resp EXCEPT ![r] = TimeoutResponse]
    /\ Goto(r, "done")
    /\ Mark(r, <<"close">>)
    /\ UNCHANGED <<route, sleep_time, span, token, ctx, exc, counter, logs,
                   slept, collectorUp>>

\* ----- db_failure: GET /db-failure -----
DbOpen(r) ==
    /\ At(r, "/db-failure", "open")
    /\ StartAsCurrentSpan(r, "simulate-db-failure", "SERVER")
    /\ Goto(r, "attrs")
    /\ UNCHANGED <<route, sleep_time, ctx, exc, counter, logs, resp, slept,
                   collectorUp>>

DbAttrs(r) ==
    /\ At(r, "/db-failure", "attrs")
    /\ spans' = [spans EXCEPT ![span[r]] =
          WithAttribute(
            WithAttribute(
              WithAttribute(WithAttribute(@, r, "endpoint", "/db-failure"),
                            r, "db.system", "mysql"),
              r, "db.operation", "SELECT"),
            r, "custom.status", "db_error")]
    /\ Goto(r, "try")
    /\ Mark(r, <<"attr", "attr", "attr", "attr">>)
    /\ UNCHANGED <<route, sleep_time, span, token, ctx, exc, current, counter,
                   logs, resp, slept, collectorUp>>

\* raise ConnectionError(...), which the except clause binds to e
DbRaise(r) ==
    /\ At(r, "/db-failure", "try")
    /\ exc' = [exc EXCEPT ![r] = ConnectionError]
    /\ Goto(r, "record")
    /\ Mark(r, <<"fault">>)
    /\ UNCHANGED <<route, sleep_time, span, token, ctx, current, spans,
                   counter, logs, resp, slept, collectorUp>>

DbRecord(r) ==
    /\ At(r, "/db-failure", "record")
    /\ spans' = [spans EXCEPT ![span[r]] = WithException(@, r, exc[r])]
    /\ Goto(r, "status")
    /\ Mark(r, <<"exception">>)
    /\ UNCHANGED <<route, sleep_time, span, token, ctx, exc, current, counter,
                   logs, resp, slept, collectorUp>>

DbStatus(r) ==
    /\ At(r, "/db-failure", "status")
    /\ spans' = [spans EXCEPT ![span[r]] = WithStatus(@, r, "ERROR", Str(exc[r]))]
    /\ Goto(r, "log")
    /\ Mark(r, <<"status">>)
    /\ UNCHANGED <<route, sleep_time, span, token, ctx, exc, current, counter,
                   logs, resp, slept, collectorUp>>

DbLogFields(r) ==
    [k \in {"trace_id", "db.system", "db.status"} |->
        CASE k = "trace_id" -> SpanContext(span[r]).trace_id
          [] k = "db.system" -> "mysql"
          [] k = "db.status" -> "connection_failed"]

DbLog(r) ==
    /\ At(r, "/db-failure", "log")
    /\ logs' = logs \cup {LogRecord(r, "ERROR", "Database error", DbLogFields(r))}
    /\ Goto(r, "return")
    /\ Mark(r, <<"log">>)
    /\ UNCHANGED <<route, sleep_time, span, token, ctx, exc, current, spans,
                   counter, resp, slept, collectorUp>>

DbReturn(r) ==
    /\ At(r, "/db-failure", "return")
    /\ EndSpan(r)
    /\ resp' = [resp EXCEPT ![r] = DbFailureResponse]
    /\ Goto(r, "done")
    /\ Mark(r, <<"close">>)
    /\ UNCHANGED <<route, sleep_time, span, token, ctx, exc, counter, logs,
                   slept, collectorUp>>

\* ----- generate_traces_and_metrics: the daemon thread -----
\* `while True`: after an iteration the loop starts the next one
BgLoopOnce == "stopped"
BgLoop == "open"

BgOpen ==
    /\ pc[BG] = "open"
    /\ counter["/background"] < MaxTicks
    /\ StartAsCurrentSpan(BG, "rranjan_background_transaction", "INTERNAL")
    /\ Goto(BG, "attrs")
    /\ UNCHANGED <<route, sleep_time, ctx, exc, counter, logs, resp, slept,
                   collectorUp>>

BgAttrs ==
    /\ pc[BG] = "attrs"
    /\ spans' = [spans EXCEPT ![span[BG]] =
          WithAttribute(@, BG, "job", "rranjan_test_task")]
    /\ Goto(BG, "count")
    /\ Mark(BG, <<"attr">>)
    /\ UNCHANGED <<route, sleep_time, span, token, ctx, exc, current, counter,
                   logs, resp, slept, collectorUp>>

BgCount ==
    /\ pc[BG] = "count"
    /\ counter' = CounterAdd(counter, "/background")
    /\ Goto(BG, "log")
    /\ Mark(BG, <<"count">>)
    /\ UNCHANGED <<route, sleep_time, span, token, ctx, exc, current, spans,
                   logs, resp, slept, collectorUp>>

BgLogFields ==
    [k \in {"trace_id", "span_id", "task"} |->
        CASE k = "trace_id" -> SpanContext(span[BG]).trace_id
          [] k = "span_id" -> SpanContext(span[BG]).span_id
          [] k = "task" -> "rranjan_background_transaction"]

BgLog ==
    /\ pc[BG] = "log"
    /\ logs' = logs \cup
          {LogRecord(BG, "INFO", "Background transaction running", BgLogFields)}
    /\ Goto(BG, "sleep")
    /\ Mark(BG, <<"log">>)
    /\ UNCHANGED <<route, sleep_time, span, token, ctx, exc, current, spans,
                   counter, resp, slept, collectorUp>>

\* time.sleep(2) dedented out of the `with` block: the span ends, then the
\* thread sleeps
BgSleepOutsideSpan ==
    /\ pc[BG] = "sleep"
    /\ EndSpan(BG)
    /\ Goto(BG, "open")
    /\ Mark(BG, <<"close", "sleep">>)
    /\ Sleep(BG, BackgroundSleepUs)
    /\ UNCHANGED <<route, sleep_time, span, token, ctx, exc, counter, logs,
                   resp, collectorUp>>

BgSleep ==
    /\ pc[BG] = "sleep"
    /\ Goto(BG, "close")
    /\ Mark(BG, <<"sleep">>)
    /\ Sleep(BG, BackgroundSleepUs)
    /\ UNCHANGED <<route, sleep_time, span, token, ctx, exc, current, spans,
                   counter, logs, resp, collectorUp>>

BgClose ==
    /\ pc[BG] = "close"
    /\ EndSpan(BG)
    /\ Goto(BG, BgLoop)
    /\ Mark(BG, <<"close">>)
    /\ UNCHANGED <<route, sleep_time, span, token, ctx, exc, counter, logs,
                   resp, slept, collectorUp>>

Background == BgOpen \/ BgAttrs \/ BgCount \/ BgLog \/ BgSleep \/ BgClose

Handler(r) ==
    \/ HelloOpen(r) \/ HelloAttrs(r) \/ HelloDraw(r) \/ HelloSleep(r)
    \/ HelloLatency(r) \/ HelloCount(r) \/ HelloCtx(r) \/ HelloLog(r)
    \/ HelloReturn(r)
    \/ ErrorOpen(r) \/ ErrorAttrs(r) \/ ErrorDivide(r) \/ ErrorRecord(r)
    \/ ErrorStatus(r) \/ ErrorLog(r) \/ ErrorReturn(r)
    \/ TimeoutOpen(r) \/ TimeoutAttrs(r) \/ TimeoutSet(r) \/ TimeoutSleep(r)
    \/ TimeoutLatency(r) \/ TimeoutCount(r) \/ TimeoutLog(r) \/ TimeoutReturn(r)
    \/ DbOpen(r) \/ DbAttrs(r) \/ DbRaise(r) \/ DbRecord(r) \/ DbStatus(r)
    \/ DbLog(r) \/ DbReturn(r)

Next ==
    \/ \E r \in Req : Dispatch(r) \/ Handler(r)
    \/ Background

Spec == Init /\ [][Next]_vars

\* The collector the exporters send to becomes unreachable, or reachable again.
CollectorChange ==
    /\ collectorUp' = ~collectorUp
    /\ UNCHANGED <<pc, route, sleep_time, span, token, ctx, exc, current, spans,
                   counter, logs, resp, trail, slept>>

OutageNext == Next \/ CollectorChange

OutageSpec == Init /\ [][OutageNext]_vars

\* The operating system schedules every runnable thread: the daemon thread and
\* every request thread keep taking steps.
LiveSpec ==
    /\ Spec
    /\ WF_vars(Background)
    /\ \A r \in Req : WF_vars(Handler(r))

(***************************************************************************)
(* Properties                                                              *)
(***************************************************************************)
InvocationsOf(rt) == {r \in Req : route[r] = rt}
Returned(r) == pc[r] = "done"
Started(u) == span[u] # NoSpan
SpanOf(u) == spans[span[u]]
BgSpans == {i \in DOMAIN spans : spans[i].owner = BG}
LogsDuring(i) == {l \in logs : l.during = i}
Has(f, k) == k \in DOMAIN f

\* C1: once every invocation of / started so far has returned, the count for
\* endpoint=/ equals the number of these invocations: no increment is lost and
\* none is counted twice, whatever the interleaving.
C1_HelloCountExact ==
    (\A r \in InvocationsOf("/") : Returned(r))
        => counter["/"] = Cardinality(InvocationsOf("/"))

C1_Witness ==
    /\ InvocationsOf("/") = Req
    /\ \A r \in Req : Returned(r)
    /\ counter["/"] = MaxReq
    /\ counter["/background"] >= 1

FaultMessage(rt) ==
    IF rt = "/error" THEN "division by zero"
    ELSE "Unable to connect to MySQL database"

\* C3: an invocation of /error or /db-failure that has returned has status
\* 500; its closed span holds exactly one recorded exception and status ERROR
\* with a non-empty message, the message of the fault that was caught.
C3_FaultRoutesRecordError ==
    \A r \in InvocationsOf("/error") \cup InvocationsOf("/db-failure") :
        /\ Returned(r) =>
              /\ resp[r].status = 500
              /\ SpanOf(r).ended
        /\ (Started(r) /\ SpanOf(r).ended) =>
              /\ Len(SpanOf(r).events) = 1
              /\ SpanOf(r).status = "ERROR"
              /\ SpanOf(r).description # ""
              /\ SpanOf(r).description = SpanOf(r).events[1].message
              /\ SpanOf(r).description = FaultMessage(route[r])

C3_Witness ==
    \E r, q \in Req :
        /\ route[r] = "/error" /\ route[q] = "/db-failure"
        /\ Returned(r) /\ Returned(q)
        /\ SpanOf(r).status = "ERROR" /\ SpanOf(q).status = "ERROR"

\* C4: an invocation of / or /timeout that has returned has status 200; its
\* span is never in status ERROR and never holds a recorded exception, in
\* particular when it is closed.
C4_SuccessRoutesStayOk ==
    \A r \in InvocationsOf("/") \cup InvocationsOf("/timeout") :
        /\ Returned(r) =>
              /\ resp[r].status = 200
              /\ SpanOf(r).ended
        /\ Started(r) =>
              /\ SpanOf(r).status \in {"OK", "UNSET"}
              /\ SpanOf(r).events = <<>>

C4_Witness ==
    \E r, q \in Req :
        /\ route[r] = "/" /\ route[q] = "/timeout"
        /\ Returned(r) /\ Returned(q)
        /\ SpanOf(r).ended /\ SpanOf(q).ended

\* C5: the span of / carries simulated_latency_ms, an integer v with
\* 100 <= v < 300, from the latency step on; the span of /timeout carries
\* timeout_latency_ms = 5500 from its latency step on.
C5_LatencyAttributes ==
    /\ \A r \in InvocationsOf("/") :
          pc[r] \in {"count", "ctx", "log", "return", "done"} =>
              /\ Has(SpanOf(r).attributes, "simulated_latency_ms")
              /\ SpanOf(r).attributes["simulated_latency_ms"] \in Int
              /\ SpanOf(r).attributes["simulated_latency_ms"] >= 100
              /\ SpanOf(r).attributes["simulated_latency_ms"] < 300
    /\ \A r \in InvocationsOf("/timeout") :
          pc[r] \in {"count", "log", "return", "done"} =>
              /\ Has(SpanOf(r).attributes, "timeout_latency_ms")
              /\ SpanOf(r).attributes["timeout_latency_ms"] = 5500

C5_Witness ==
    \E r, q \in Req :
        /\ route[r] = "/" /\ Returned(r)
        /\ sleep_time[r] = LatencyHiUs - 1
        /\ SpanOf(r).attributes["simulated_latency_ms"] = 299
        /\ route[q] = "/timeout" /\ Returned(q)
        /\ SpanOf(q).attributes["timeout_latency_ms"] = 5500

\* C6: once every invocation of a path started so far has returned, the count
\* for that path's endpoint label equals the number of these invocations, for
\* each of the four paths.
C6_EveryHandlerCountsOnce ==
    \A rt \in Routes :
        (\A r \in InvocationsOf(rt) : Returned(r))
            => counter[rt] = Cardinality(InvocationsOf(rt))

\* the iterations that have passed their increment / their log call
BgCounted ==
    {i \in BgSpans : spans[i].ended \/ pc[BG] \in {"log", "sleep", "close"}}
BgLogged == {i \in BgSpans : spans[i].ended \/ pc[BG] \in {"sleep", "close"}}

\* C7: every iteration of the background loop has one span, a root span whose
\* trace_id no other iteration's span has; the count for endpoint=/background
\* is the number of iterations that reached their increment; an iteration
\* that has logged has exactly one log record, carrying its span's trace_id
\* and span_id.
C7_BackgroundTriads ==
    /\ \A i \in BgSpans :
          /\ spans[i].parent = NoParent
          /\ \A j \in BgSpans : j # i => spans[j].trace_id # spans[i].trace_id
    /\ counter["/background"] = Cardinality(BgCounted)
    /\ \A i \in BgSpans :
          /\ Cardinality(LogsDuring(i)) = IF i \in BgLogged THEN 1 ELSE 0
          /\ \A l \in LogsDuring(i) :
                /\ l.by = BG
                /\ l.fields["trace_id"] = spans[i].trace_id
                /\ l.fields["span_id"] = spans[i].span_id

C7_Witness ==
    /\ Cardinality({i \in BgSpans : spans[i].ended}) >= 2
    /\ counter["/background"] >= 2
    /\ \E r \in Req : Started(r) /\ ~SpanOf(r).ended

\* C8: with every runnable thread scheduled, the background loop never leaves
\* its loop and every iteration explored is followed by the next one: each
\* value of the count for endpoint=/background below the explored bound is
\* eventually exceeded, whatever the requests do meanwhile.
C8_BackgroundKeepsTicking ==
    /\ [](pc[BG] # "stopped")
    /\ \A k \in 0..(MaxTicks - 1) :
          (counter["/background"] = k) ~> (counter["/background"] = k + 1)

C8_Witness ==
    /\ counter["/background"] >= 2
    /\ \E i \in BgSpans : ~spans[i].ended
    /\ \E r \in Req : At(r, "/timeout", "sleep")

\* C9: an invocation that has returned returned the body and status code
\* documented for its path (for / the status code), whether or not the
\* collector accepted the span and the log record it emitted.
C9_DocumentedResponses ==
    \A r \in Req :
        Returned(r) =>
            CASE route[r] = "/" -> resp[r].status = 200 /\ resp[r].body # ""
              [] route[r] = "/error" ->
                    resp[r] = [body |-> "Simulated error occurred!", status |-> 500]
              [] route[r] = "/timeout" ->
                    resp[r] = [body |-> "Simulated long request complete",
                               status |-> 200]
              [] route[r] = "/db-failure" ->
                    resp[r] = [body |-> "Database connection error simulated",
                               status |-> 500]

C9_Witness ==
    \E r, q \in Req :
        /\ route[r] = "/error" /\ Returned(r)
        /\ ~SpanOf(r).exported
        /\ \A l \in LogsDuring(span[r]) : ~l.exported
        /\ resp[r].status = 500
        /\ route[q] = "/" /\ Returned(q)
        /\ SpanOf(q).exported

\* C10: every thread's current span is a span that thread opened; the context
\* hello reads is that of the span its own invocation opened; every log record
\* names the trace of the span its emitter opened; every span is a root span,
\* no request span shares a trace_id with a background span, and a span is
\* written only by the thread that opened it.
C10_ContextIsolation ==
    /\ \A u \in Units : current[u] # NoSpan => spans[current[u]].owner = u
    /\ \A r \in InvocationsOf("/") :
          pc[r] \in {"log", "return", "done"} => ctx[r] = SpanContext(span[r])
    /\ \A l \in logs :
          /\ spans[l.during].owner = l.by
          /\ l.fields["trace_id"] = spans[l.during].trace_id
    /\ \A i \in DOMAIN spans :
          /\ spans[i].parent = NoParent
          /\ spans[i].writers \subseteq {spans[i].owner}
          /\ \A j \in BgSpans : j # i => spans[j].trace_id # spans[i].trace_id

C10_Witness ==
    \E r, q \in Req :
        /\ r # q
        /\ At(r, "/", "log")
        /\ Started(q) /\ ~SpanOf(q).ended
        /\ pc[BG] \in {"attrs", "count", "log", "sleep", "close"}
        /\ ctx[r].span_id = SpanOf(r).span_id

\* ----- the order of the steps of one unit of work -----
Positions(t, x) == {i \in 1..Len(t) : t[i] = x}
Count(t, x) == Cardinality(Positions(t, x))
\* the sleep or the simulated fault of a request handler
WorkAt(t) == Positions(t, "sleep") \cup Positions(t, "fault")
RouteOfSpan(i) == IF spans[i].owner = BG THEN "/background" ELSE route[spans[i].owner]
\* no attribute after the count, no count after the log, no log after the close
StepOrder(t) ==
    \A i, j \in 1..Len(t) :
        i < j => /\ ~(t[i] = "count" /\ t[j] = "attr")
                 /\ ~(t[i] = "log" /\ t[j] = "count")
                 /\ ~(t[i] = "close" /\ t[j] = "log")
\* t has a step x
Did(t, x) == \E i \in 1..Len(t) : t[i] = x
\* t has exactly one step x
Once(t, x) == \E i \in 1..Len(t) : t[i] = x /\ \A j \in 1..Len(t) : t[j] = x => j = i

IsPrefix(t, full) == Len(t) <= Len(full) /\ \A i \in 1..Len(t) : t[i] = full[i]

\* C12: every iteration of the background loop takes its steps in the order
\* open (kind INTERNAL), set attribute job, increment endpoint=/background,
\* log INFO 'Background transaction running', sleep the fixed interval, close:
\* the sleep happens in the open span, an iteration's span is closed before
\* the next one is opened, and at most one background span is open.
C12_BackgroundIteration ==
    /\ \A i \in BgSpans :
          /\ spans[i].kind = "INTERNAL"
          /\ IsPrefix(trail[i], <<"open", "attr", "count", "log", "sleep", "close">>)
          /\ spans[i].ended <=> Count(trail[i], "close") = 1
          /\ Count(trail[i], "attr") = 1 => Has(spans[i].attributes, "job")
          /\ \A l \in LogsDuring(i) :
                l.level = "INFO" /\ l.message = "Background transaction running"
          /\ Count(trail[i], "sleep") = 1 => slept[BG] = 2000000
          /\ \A j \in BgSpans : i < j => spans[i].ended
    /\ Cardinality({i \in BgSpans : ~spans[i].ended}) <= 1
    /\ counter["/background"] =
          Cardinality({i \in BgSpans : Count(trail[i], "count") = 1})

C12_Witness ==
    \E i, j \in BgSpans :
        /\ spans[i].ended
        /\ trail[i] = <<"open", "attr", "count", "log", "sleep", "close">>
        /\ ~spans[j].ended
        /\ trail[j] = <<"open", "attr", "count", "log", "sleep">>

Last(t) == t[Len(t)]
ClosedForGood(i) ==
    spans[i].ended => (spans'[i] = spans[i] /\ trail'[i] = trail[i])

\* C13: a handler's span is closed at most once, and exactly once by the time
\* the handler has returned its response, on the normal paths of / and
\* /timeout and on the caught-exception paths of /error and /db-failure; the
\* close is the last step of the unit of work, and a closed span is never
\* reopened or changed again.
C13_ClosedOnceOnEveryPath ==
    /\ [](\A r \in Req :
            /\ Started(r) =>
                  /\ Count(trail[span[r]], "close") <= 1
                  /\ SpanOf(r).ended <=> Count(trail[span[r]], "close") = 1
                  /\ SpanOf(r).ended => Last(trail[span[r]]) = "close"
            /\ (Returned(r) \/ resp[r] # NoResp) =>
                  Started(r) /\ SpanOf(r).ended)
    /\ [][\A i \in DOMAIN spans : ClosedForGood(i)]_vars

C13_Witness ==
    \E r, q \in Req :
        /\ route[r] = "/error" /\ Returned(r) /\ SpanOf(r).ended
        /\ SpanOf(r).status = "ERROR"
        /\ route[q] = "/" /\ Returned(q) /\ SpanOf(q).ended
        /\ \E i \in BgSpans : ~spans[i].ended

\* the next request of the run, not yet dispatched
NextToArrive(q) == pc[q] = "idle" /\ \A p \in Req : p < q => pc[p] # "idle"
\* the background loop has iterations left to explore
BgHasWork == ~(pc[BG] = "open" /\ counter["/background"] >= MaxTicks)

\* C14: while a thread is at its time.sleep (an invocation of / or /timeout,
\* or the background loop), the sleeper itself can go on, every request not
\* yet dispatched can be dispatched, every other invocation in progress can
\* take its next step, and the background loop can take its next step: no
\* thread waits for a sleeping one.
C14_SleepBlocksOnlySleeper ==
    \A u \in Units :
        pc[u] = "sleep" =>
            /\ ENABLED Next
            /\ \A q \in Req \ {u} :
                  /\ NextToArrive(q) => ENABLED Dispatch(q)
                  /\ pc[q] \notin {"idle", "done"} => ENABLED Handler(q)
            /\ (u # BG /\ BgHasWork) => ENABLED Background

C14_Witness ==
    \E r, q \in Req :
        /\ At(r, "/timeout", "sleep")
        /\ Returned(q) /\ SpanOf(q).ended
        /\ counter["/background"] >= 1
        /\ pc[BG] = "sleep"

\* C15: with every runnable thread scheduled, every invocation that was
\* dispatched ends with its span closed and its response returned, while the
\* background loop keeps running; an invocation of /timeout that has reached
\* its sleep ends having slept the whole 5.5 s, set timeout_latency_ms,
\* incremented endpoint=/timeout, emitted its WARNING log record and closed
\* its span.
C15_StartedHandlersTerminate ==
    /\ \A r \in Req :
          (pc[r] # "idle") ~>
              (Returned(r) /\ Started(r) /\ SpanOf(r).ended /\ resp[r] # NoResp)
    /\ \A r \in Req :
          At(r, "/timeout", "sleep") ~>
              /\ Returned(r)
              /\ slept[r] = TimeoutUs
              /\ Has(SpanOf(r).attributes, "timeout_latency_ms")
              /\ trail[span[r]] = <<"open", "attr", "attr", "sleep", "attr",
                                    "count", "log", "close">>
              /\ counter["/timeout"] >= 1
              /\ \E l \in LogsDuring(span[r]) :
                    l.level = "WARNING" /\ l.message = "Simulated timeout"

C15_Witness ==
    \E r \in Req :
        /\ route[r] = "/timeout" /\ Returned(r)
        /\ slept[r] = TimeoutUs
        /\ counter["/timeout"] >= 1
        /\ SpanOf(r).ended
        /\ \E i \in BgSpans : ~spans[i].ended

\* the endpoint label of the thread's unit of work
LabelOf(u) == IF u = BG THEN "/background" ELSE route[u]
Acts(u) == pc'[u] # pc[u]

\* C16: in every step the count of every label stays or grows by exactly 1;
\* a step of a handler invocation or of the background loop leaves the count
\* of every label other than its own endpoint label unchanged, and a step of
\* /error or /db-failure leaves every count unchanged.
C16_CounterFrame ==
    [][/\ \A l \in Labels : counter'[l] \in {counter[l], counter[l] + 1}
       /\ counter' # counter => \E u \in Units : Acts(u)
       /\ \A u \in Units :
             Acts(u) =>
                 /\ \A l \in Labels \ {LabelOf(u)} : counter'[l] = counter[l]
                 /\ LabelOf(u) \in {"/error", "/db-failure"} => counter' = counter
      ]_vars

C16_Witness ==
    \E r, q \in Req :
        /\ route[r] = "/timeout" /\ Returned(r)
        /\ route[q] = "/error" /\ Returned(q)
        /\ counter["/timeout"] = 1
        /\ counter["/background"] = MaxTicks
        /\ counter["/"] = 0 /\ counter["/error"] = 0 /\ counter["/db-failure"] = 0

\* ms is the whole number of milliseconds in the duration us
WholeMsOf(ms, us) == ms * 1000 <= us /\ us < (ms + 1) * 1000

\* C17: in every invocation of /, the duration slept is the sleep_time that
\* was drawn, the simulated_latency_ms attribute is its whole milliseconds,
\* and the latency_ms field of the 'Request handled' log record equals that
\* attribute: one draw serves the sleep, the attribute and the log.
C17_OneLatencyValue ==
    \A r \in InvocationsOf("/") :
        /\ pc[r] \in {"latency", "count", "ctx", "log", "return", "done"} =>
              /\ slept[r] = sleep_time[r]
              /\ slept[r] >= LatencyLoUs /\ slept[r] < LatencyHiUs
        /\ pc[r] \in {"count", "ctx", "log", "return", "done"} =>
              WholeMsOf(SpanOf(r).attributes["simulated_latency_ms"], slept[r])
        /\ pc[r] \in {"return", "done"} => LogsDuring(span[r]) # {}
        /\ Started(r) =>
              \A l \in LogsDuring(span[r]) :
                  /\ l.message = "Request handled"
                  /\ l.fields["latency_ms"] =
                        SpanOf(r).attributes["simulated_latency_ms"]
                  /\ WholeMsOf(l.fields["latency_ms"], slept[r])

C17_Witness ==
    \E r, q \in Req :
        /\ route[r] = "/" /\ Returned(r) /\ slept[r] = LatencyHiUs - 1
        /\ \E l \in LogsDuring(span[r]) : l.fields["latency_ms"] = 299
        /\ route[q] = "/" /\ Returned(q) /\ slept[q] = LatencyLoUs
        /\ \E l \in LogsDuring(span[q]) : l.fields["latency_ms"] = 100
====
